---------------------------- MODULE Spec2Model ----------------------------
(***************************************************************************)
(* RPD Hub server (src/server.ts): the event + RSVP store, the             *)
(* notification sender and the three request handlers of /api/events.      *)
(*                                                                         *)
(* Text values are sequences of one-character strings (<<"a","b">> is      *)
(* "ab"), so that LIKE, substring search and lexical ordering are computed *)
(* the way SQLite computes them.  NULL stands for JavaScript undefined /   *)
(* SQL NULL.  The handlers run on Node's single thread: a handler runs     *)
(* without interruption up to an await on the mail transport, so one       *)
(* action is the code between two such awaits.                             *)
(***************************************************************************)
EXTENDS Integers, Sequences, FiniteSets, TLC

VARIABLES
    server,       \* the process: "starting", "serving" or "exited"
    columns,      \* table name -> its column names ({}: no such table)
    smtpUser,     \* process.env.SMTP_USER is set (non-empty)
    smtpHost,     \* process.env.SMTP_HOST is set (non-empty)
    foreignKeys,  \* the SQLite build enforces FOREIGN KEY clauses
    events,       \* table events, in rowid order
    rsvps,        \* table rsvps, in rowid order
    inflight,     \* request number -> handler suspended at an await
    nreq,         \* number of POST requests received so far
    out,          \* the HTTP response sent by the last step, or NoOut
    createLog,    \* history: the ids POST /api/events has returned
    fresh         \* history: ids returned since the last RSVP request

vars == <<server, columns, smtpUser, smtpHost, foreignKeys, events, rsvps, inflight, nreq,
          out, createLog, fresh>>

\* The number of POST requests of one run.
MaxRequests == 3

-----------------------------------------------------------------------------
(* Values *)

NULL == <<"NULL">>

\* JavaScript truthiness of a string-or-undefined value: `if (q)`, `!email`.
Truthy(v) == v # NULL /\ v # <<>>

\* The characters of the model in ASCII (memcmp) order.
Ascii == <<"%", "0", "1", "2", "@", "A", "B", "S", "_", "a", "b", "s">>

Code(c) == CHOOSE i \in 1..Len(Ascii) : Ascii[i] = c

\* SQLite's BINARY collation: memcmp, the shorter string first on a tie.
RECURSIVE StrLess(_, _)
StrLess(a, b) ==
    IF b = <<>> THEN FALSE
    ELSE IF a = <<>> THEN TRUE
    ELSE IF Head(a) = Head(b) THEN StrLess(Tail(a), Tail(b))
    ELSE Code(Head(a)) < Code(Head(b))

\* The case folding of LIKE: ASCII letters only.
Fold(c) ==
    CASE c = "A" -> "a"
      [] c = "B" -> "b"
      [] c = "S" -> "s"
      [] OTHER -> c

\* SQLite's LIKE without ESCAPE: % is any run of characters, _ is any one
\* character, every other character matches itself up to ASCII case.
RECURSIVE LikeMatch(_, _)
LikeMatch(p, s) ==
    IF p = <<>> THEN s = <<>>
    ELSE IF Head(p) = "%"
         THEN LikeMatch(Tail(p), s) \/ (s # <<>> /\ LikeMatch(p, Tail(s)))
    ELSE /\ s # <<>>
         /\ (Head(p) = "_" \/ Fold(Head(p)) = Fold(Head(s)))
         /\ LikeMatch(Tail(p), Tail(s))

\* column LIKE ? : NULL LIKE x is NULL, which WHERE treats as false.
Like(column, pattern) == column # NULL /\ LikeMatch(pattern, column)

\* column = ? on a TEXT column: NULL = x is NULL, which WHERE treats as false.
SqlEq(column, value) == column # NULL /\ column = value

Digit(c) == Code(c) - Code("0")

\* INTEGER affinity applied to the text of the :id route parameter.
RECURSIVE ToInteger(_)
ToInteger(s) ==
    IF s = <<>> THEN 0
    ELSE Digit(s[Len(s)]) + 10 * ToInteger(SubSeq(s, 1, Len(s) - 1))

SetMax(S) == CHOOSE m \in S : \A x \in S : x <= m

\* INTEGER PRIMARY KEY AUTOINCREMENT on a table no row is ever deleted from.
NextRowid(table) == 1 + SetMax({0} \cup {table[i].id : i \in DOMAIN table})


-----------------------------------------------------------------------------
(* Notification sender *)

\* Only the user is looked at.
SmtpConfiguredUserOnly == smtpUser

\* `!process.env.SMTP_USER || !process.env.SMTP_HOST` is false.
SmtpConfigured == smtpUser /\ smtpHost

\* What transporter.sendMail can do: resolve with a message id, or reject.
Delivered == [ok |-> TRUE, messageId |-> "<id@relay>", message |-> ""]

Rejected(m) == [ok |-> FALSE, messageId |-> "", message |-> m]

NoOutcome == [ok |-> FALSE, messageId |-> "", message |-> "not called"]

TransportOutcomes == {Delivered, Rejected("ETIMEDOUT")}

\* sendEmail's return value; raised = TRUE is an exception reaching the caller.
Returned(success, messageId, error) ==
    [raised |-> FALSE, success |-> success, messageId |-> messageId,
     error |-> error]

\* sendEmail without relay credentials: returns before the try block.
SendEmailUnconfigured == Returned(FALSE, "", "SMTP not configured")

\* The catch block rethrows.
SendEmailSettledRethrows(outcome) ==
    IF outcome.ok
    THEN Returned(TRUE, outcome.messageId, "")
    ELSE [raised |-> TRUE, success |-> FALSE, messageId |-> "",
          error |-> outcome.message]

\* sendEmail after `await transporter.sendMail(...)`: the try and the catch.
SendEmailSettled(outcome) ==
    IF outcome.ok
    THEN Returned(TRUE, outcome.messageId, "")
    ELSE Returned(FALSE, "", outcome.message)

\* One call of sendEmail as the handler sees it.
Send(to, subject, transport, outcome, result) ==
    [to |-> to, subject |-> subject, transport |-> transport,
     outcome |-> outcome, result |-> result]

-----------------------------------------------------------------------------
(* Store *)

\* CREATE TABLE IF NOT EXISTS events (...) of the first version of the server.
OriginalEventsColumns ==
    {"id", "title", "description", "playlist", "format", "location", "date",
     "time", "video_recorded", "proficiency", "artist_type", "created_at"}

\* CREATE TABLE IF NOT EXISTS rsvps (...) of the first version of the server.
OriginalRsvpsColumns == {"id", "event_id", "user_identifier", "created_at"}

\* The columns the handlers read and write.
EventsColumns == OriginalEventsColumns \cup {"creator_email"}

RsvpsColumns == OriginalRsvpsColumns \cup {"email"}

CurrentColumns == [events |-> EventsColumns, rsvps |-> RsvpsColumns]

\* title, location, date and time are NOT NULL.
EventNotNullOk(p) ==
    /\ p.title # NULL
    /\ p.location # NULL
    /\ p.date # NULL
    /\ p.time # NULL

\* `video_recorded ? 1 : 0`
JsFlag(b) == IF b THEN 1 ELSE 0

\* CURRENT_TIMESTAMP while the handler of rq runs its INSERT, which it does
\* in the step that receives rq: requests are numbered in arrival order.
CurrentTimestamp(rq) == rq.n

\* The row INSERT INTO events stores for request body p at time now.
EventRow(id, p, now) ==
    [id |-> id, title |-> p.title, description |-> p.description,
     playlist |-> p.playlist, format |-> p.format, location |-> p.location,
     date |-> p.date, time |-> p.time,
     video_recorded |-> JsFlag(p.video_recorded),
     proficiency |-> p.proficiency, artist_type |-> p.artist_type,
     created_at |-> now, creator_email |-> p.creator_email]

\* The insert is made without the existence check.
ExistingRsvpNever(rs, id, email) == FALSE

\* The email compared without regard to letter case (COLLATE NOCASE).
ExistingRsvpNoCase(rs, id, email) ==
    \E i \in DOMAIN rs :
       /\ rs[i].event_id = ToInteger(id)
       /\ [k \in DOMAIN rs[i].email |-> Fold(rs[i].email[k])]
             = [k \in DOMAIN email |-> Fold(email[k])]

\* The two parameters bound in the wrong order: .get(email, eventId).
ExistingRsvpSwapped(rs, id, email) ==
    \E i \in DOMAIN rs : rs[i].event_id = ToInteger(email) /\ rs[i].email = id

\* SELECT id FROM rsvps WHERE event_id = ? AND email = ?
ExistingRsvp(rs, id, email) ==
    \E i \in DOMAIN rs : rs[i].event_id = ToInteger(id) /\ rs[i].email = email

\* FOREIGN KEY (event_id) REFERENCES events(id), when the build enforces it.
ForeignKeyOk(evs, id) ==
    foreignKeys => \E i \in DOMAIN evs : evs[i].id = ToInteger(id)

\* `req.ip || "anon"`
UserIdentifier(ip) == IF Truthy(ip) THEN ip ELSE <<"a", "n", "o", "n">>

\* The row INSERT INTO rsvps stores at time now.
RsvpRow(rs, id, ip, email, now) ==
    [id |-> NextRowid(rs), event_id |-> ToInteger(id),
     user_identifier |-> UserIdentifier(ip), email |-> email,
     created_at |-> now]

NoEvent == [id |-> 0]

\* SELECT * FROM events WHERE id = ?  (.get(): the row, or undefined)
SelectEvent(evs, id) ==
    IF \E i \in DOMAIN evs : evs[i].id = ToInteger(id)
    THEN evs[CHOOSE i \in DOMAIN evs : evs[i].id = ToInteger(id)]
    ELSE NoEvent

\* The WHERE clause left out: every row is counted.
RsvpCountOfAll(rs, eventId) == Len(rs)

\* SELECT COUNT(*) FROM rsvps WHERE event_id = ?
RsvpCount(rs, eventId) ==
    Cardinality({i \in DOMAIN rs : rs[i].event_id = eventId})

-----------------------------------------------------------------------------
(* Schema initialisation and migrations, run when the module is loaded *)

\* The database file as the startup code sees it; error is what a statement
\* threw outside every try block, which ends the process.
Database(cols, evs, rs, error) ==
    [columns |-> cols, events |-> evs, rsvps |-> rs, error |-> error]

NoError == ""

\* CREATE TABLE IF NOT EXISTS: an existing table is left as it is.
CreateTableIfNotExists(db, table) ==
    IF db.columns[table] = {}
    THEN [db EXCEPT !.columns[table] = CurrentColumns[table]]
    ELSE db

\* The probe never finds the column.
ProbeNeverOk(db, table, column) == FALSE

\* db.prepare("SELECT <column> FROM <table> LIMIT 1").get() does not throw.
ProbeOk(db, table, column) == column \in db.columns[table]

\* DEFAULT 'unknown@example.com'
UnknownEmail == <<"u", "@">>

\* The column is added by creating the table anew.
AddColumnRecreating(db, table, column) ==
    [db EXCEPT !.columns[table] = @ \cup {column}, ![table] = <<>>]

\* ALTER TABLE <table> ADD COLUMN <column> TEXT DEFAULT 'unknown@example.com':
\* refused for a column the table has; otherwise every row reads the default
\* in the new column and is unchanged in the others.
AddColumn(db, table, column) ==
    IF column \in db.columns[table]
    THEN [db EXCEPT !.error = "duplicate column name"]
    ELSE [db EXCEPT
             !.columns[table] = @ \cup {column},
             ![table] = [i \in DOMAIN @ |->
                            [c \in DOMAIN @[i] \cup {column} |->
                                IF c = column THEN UnknownEmail ELSE @[i][c]]]]

\* try { probe } catch (e) { ALTER TABLE ... }
Migrate(db, table, column) ==
    IF db.error # NoError \/ ProbeOk(db, table, column)
    THEN db
    ELSE AddColumn(db, table, column)

\* Lines 90-130 on the database file db.
Migrations(db) ==
    Migrate(Migrate(CreateTableIfNotExists(CreateTableIfNotExists(db, "events"),
                                           "rsvps"),
                    "events", "creator_email"),
            "rsvps", "email")

-----------------------------------------------------------------------------
(* GET /api/events: the query the handler builds *)

Pattern(v) == <<"%">> \o v \o <<"%">>

\* The WHERE clause: `WHERE 1=1` and one AND term per truthy parameter.
Matches(e, query) ==
    /\ Truthy(query.q) =>
          \/ Like(e.title, Pattern(query.q))
          \/ Like(e.description, Pattern(query.q))
          \/ Like(e.playlist, Pattern(query.q))
    /\ Truthy(query.location) => Like(e.location, Pattern(query.location))
    /\ Truthy(query.proficiency) => SqlEq(e.proficiency, query.proficiency)
    /\ Truthy(query.artist_type) => SqlEq(e.artist_type, query.artist_type)

\* The subquery without its WHERE clause.
WithCountOfAll(e, rs) == e @@ [rsvp_count |-> Len(rs)]

\* e.*, (SELECT COUNT(*) FROM rsvps r WHERE r.event_id = e.id) as rsvp_count
WithCount(e, rs) == e @@ [rsvp_count |-> RsvpCount(rs, e.id)]

\* ORDER BY time ASC, date ASC.
OrderKeyLessTimeFirst(a, b) ==
    \/ StrLess(a.time, b.time)
    \/ a.time = b.time /\ StrLess(a.date, b.date)

\* ORDER BY date ASC, time ASC: a precedes b.
OrderKeyLess(a, b) ==
    \/ StrLess(a.date, b.date)
    \/ a.date = b.date /\ StrLess(a.time, b.time)

InsertAt(s, i, x) == SubSeq(s, 1, i) \o <<x>> \o SubSeq(s, i + 1, Len(s))

\* Where x may go in the sorted s; rows with equal keys come in any order.
InsertPoints(s, x) ==
    {i \in 0..Len(s) :
        /\ \A j \in 1..i : ~OrderKeyLess(x, s[j])
        /\ \A j \in (i + 1)..Len(s) : ~OrderKeyLess(s[j], x)}

\* The orders the sorter may return the rows in.
RECURSIVE OrderBy(_)
OrderBy(rows) ==
    IF rows = <<>> THEN {<<>>}
    ELSE LET x == rows[Len(rows)]
             sorted == OrderBy(SubSeq(rows, 1, Len(rows) - 1))
         IN  UNION {{InsertAt(s, i, x) : i \in InsertPoints(s, x)} : s \in sorted}

\* The rows the WHERE clause keeps, each with its rsvp_count, in scan order.
SelectEvents(evs, rs, query) ==
    LET kept == SelectSeq(evs, LAMBDA e : Matches(e, query))
    IN  [i \in DOMAIN kept |-> WithCount(kept[i], rs)]

\* db.prepare(query).all(...params)
ListEvents(evs, rs, query) == OrderBy(SelectEvents(evs, rs, query))

-----------------------------------------------------------------------------
(* Requests and handlers *)

NoOut == [route |-> "none"]

NoJson == [pending |-> TRUE]

NoPayload == [none |-> TRUE]

NoQuery == [q |-> NULL, location |-> NULL, proficiency |-> NULL,
            artist_type |-> NULL]

\* A request as its handler holds it: the inputs, the handler's position, its
\* locals (eventId, event), its calls of sendEmail and, once sent, the response.
Request(n, route, id, payload, email, ip, query) ==
    [route |-> route, n |-> n, id |-> id, payload |-> payload,
     email |-> email, ip |-> ip, query |-> query, pc |-> "start",
     eventId |-> 0, event |-> NoEvent, sends |-> <<>>, status |-> 0,
     json |-> NoJson]

\* res.status(status).json(json)
Reply(rq, status, json) ==
    [rq EXCEPT !.pc = "done", !.status = status, !.json = json]

IsSendPc(pc) == pc \in {"sendCreated", "sendUser", "sendCreator"}

IsAwaitPc(pc) == pc \in {"awaitCreated", "awaitUser", "awaitCreator"}

AwaitPc(pc) ==
    CASE pc = "sendCreated" -> "awaitCreated"
      [] pc = "sendUser" -> "awaitUser"
      [] pc = "sendCreator" -> "awaitCreator"

\* The notification to the event's creator is left out.
AfterPcSkippingCreator(pc) ==
    CASE pc \in {"sendCreated", "awaitCreated"} -> "respondCreated"
      [] pc \in {"sendUser", "awaitUser", "sendCreator", "awaitCreator"} ->
            "count"

\* The RSVP handler returns after the creator's alert without a response.
AfterPcWithoutResponse(pc) ==
    CASE pc \in {"sendCreated", "awaitCreated"} -> "respondCreated"
      [] pc \in {"sendUser", "awaitUser"} -> "sendCreator"
      [] pc \in {"sendCreator", "awaitCreator"} -> "returned"

\* The statement after each `await sendEmail(...)`.
AfterPc(pc) ==
    CASE pc \in {"sendCreated", "awaitCreated"} -> "respondCreated"
      [] pc \in {"sendUser", "awaitUser"} -> "sendCreator"
      [] pc \in {"sendCreator", "awaitCreator"} -> "count"

\* The two recipients of an RSVP's notifications exchanged.
RecipientSwapped(rq) ==
    CASE rq.pc \in {"sendCreated", "awaitCreated"} -> rq.payload.creator_email
      [] rq.pc \in {"sendUser", "awaitUser"} -> rq.event.creator_email
      [] rq.pc \in {"sendCreator", "awaitCreator"} -> rq.email

\* The first argument of each sendEmail call.
Recipient(rq) ==
    CASE rq.pc \in {"sendCreated", "awaitCreated"} -> rq.payload.creator_email
      [] rq.pc \in {"sendUser", "awaitUser"} -> rq.email
      [] rq.pc \in {"sendCreator", "awaitCreator"} -> rq.event.creator_email

Subject(pc) ==
    CASE pc \in {"sendCreated", "awaitCreated"} -> "Event Created"
      [] pc \in {"sendUser", "awaitUser"} -> "RSVP Confirmation"
      [] pc \in {"sendCreator", "awaitCreator"} -> "New RSVP"

\* A notification that was not sent fails the request.
AfterSendFailing(rq, send) ==
    [rq EXCEPT !.sends = Append(@, send),
               !.pc = IF send.result.raised \/ ~send.result.success
                      THEN "catch" ELSE AfterPc(rq.pc)]

\* A notification the transport did not deliver is attempted a second time.
AfterSendRetrying(rq, send) ==
    [rq EXCEPT !.sends = Append(@, send),
               !.pc = IF send.result.raised THEN "catch"
                      ELSE IF /\ send.transport
                              /\ ~send.result.success
                              /\ \A k \in DOMAIN rq.sends :
                                    rq.sends[k].subject # send.subject
                      THEN CHOOSE pc \in {"sendCreated", "sendUser", "sendCreator"} :
                              Subject(pc) = send.subject
                      ELSE AfterPc(rq.pc)]

\* sendEmail has returned (or raised into the handler's try block).
AfterSend(rq, send) ==
    [rq EXCEPT !.sends = Append(@, send),
               !.pc = IF send.result.raised THEN "catch" ELSE AfterPc(rq.pc)]

\* result.changes instead of result.lastInsertRowid.
CreatedReplyChanges(rq) == Reply(rq, 200, [id |-> 1])

\* res.json({ id: eventId })
CreatedReply(rq) == Reply(rq, 200, [id |-> rq.eventId])

\* The handler from its position up to its next await on the transport, or to
\* its response.  rs is table rsvps as the handler's next store read sees it.
RECURSIVE Run(_, _)
Run(rq, rs) ==
    CASE IsSendPc(rq.pc) ->
            IF SmtpConfigured
            THEN [rq EXCEPT !.pc = AwaitPc(rq.pc)]
            ELSE Run(AfterSend(rq, Send(Recipient(rq), Subject(rq.pc), FALSE,
                                        NoOutcome, SendEmailUnconfigured)), rs)
      [] rq.pc = "respondCreated" -> CreatedReply(rq)
      [] rq.pc = "count" ->
            Reply(rq, 200, [rsvp_count |-> RsvpCount(rs, ToInteger(rq.id))])
      [] rq.pc = "catch" -> Reply(rq, 500, [error |-> "Database error"])
      [] OTHER -> rq

\* What a handler has done when it suspends or responds: its own state and
\* the two tables.
Handled(rq, evs, rs) == [rq |-> rq, events |-> evs, rsvps |-> rs]

\* Only an absent creator_email is refused; an empty one passes.
MissingCreatorEmailUndefinedOnly(p) == p.creator_email = NULL

\* `!creator_email`
MissingCreatorEmail(p) == ~Truthy(p.creator_email)

\* The duplicate answered as a conflict instead.
DuplicateReplyConflict(rq) ==
    Reply(rq, 409, [error |-> "This email has already RSVP'd"])

\* return res.status(400).json({ error: "This email has already RSVP'd" })
DuplicateReply(rq) ==
    Reply(rq, 400, [error |-> "This email has already RSVP'd"])

\* POST /api/events, from the request to the first await or the response.
CreateHandler(rq, evs, rs) ==
    IF MissingCreatorEmail(rq.payload)
    THEN Handled(Reply(rq, 400, [error |-> "Creator email is required"]),
                 evs, rs)
    ELSE IF ~EventNotNullOk(rq.payload)
    THEN Handled(Reply(rq, 500, [error |-> "Database error"]), evs, rs)
    ELSE LET eventId == NextRowid(evs)
         IN  Handled(Run([rq EXCEPT !.eventId = eventId,
                                    !.pc = "sendCreated"], rs),
                     Append(evs, EventRow(eventId, rq.payload,
                                          CurrentTimestamp(rq))), rs)

\* A repeated RSVP rewrites the stored row instead of being refused.
RsvpHandlerUpserting(rq, evs, rs) ==
    IF ~Truthy(rq.email)
    THEN Handled(Reply(rq, 400, [error |-> "Email is required for RSVP"]),
                 evs, rs)
    ELSE IF ExistingRsvp(rs, rq.id, rq.email)
    THEN LET touched ==
                 [i \in DOMAIN rs |->
                     IF /\ rs[i].event_id = ToInteger(rq.id)
                        /\ rs[i].email = rq.email
                     THEN [rs[i] EXCEPT !.created_at = CurrentTimestamp(rq)]
                     ELSE rs[i]]
         IN  Handled(Run([rq EXCEPT !.pc = "count"], touched), evs, touched)
    ELSE IF ~ForeignKeyOk(evs, rq.id)
    THEN Handled(Reply(rq, 500, [error |-> "Database error"]), evs, rs)
    ELSE LET stored == Append(rs, RsvpRow(rs, rq.id, rq.ip, rq.email,
                                            CurrentTimestamp(rq)))
             event == SelectEvent(evs, rq.id)
         IN  IF event # NoEvent
             THEN Handled(Run([rq EXCEPT !.event = event, !.pc = "sendUser"],
                              stored),
                          evs, stored)
             ELSE Handled(Run([rq EXCEPT !.pc = "count"], stored), evs, stored)

\* POST /api/events/:id/rsvp, from the request to the first await or the
\* response.
RsvpHandler(rq, evs, rs) ==
    IF ~Truthy(rq.email)
    THEN Handled(Reply(rq, 400, [error |-> "Email is required for RSVP"]),
                 evs, rs)
    ELSE IF ExistingRsvp(rs, rq.id, rq.email)
    THEN Handled(DuplicateReply(rq), evs, rs)
    ELSE IF ~ForeignKeyOk(evs, rq.id)
    THEN Handled(Reply(rq, 500, [error |-> "Database error"]), evs, rs)
    ELSE LET stored == Append(rs, RsvpRow(rs, rq.id, rq.ip, rq.email,
                                            CurrentTimestamp(rq)))
             event == SelectEvent(evs, rq.id)
         IN  IF event # NoEvent
             THEN Handled(Run([rq EXCEPT !.event = event, !.pc = "sendUser"],
                              stored),
                          evs, stored)
             ELSE Handled(Run([rq EXCEPT !.pc = "count"], stored), evs, stored)

\* The handler runs on with the table as it was when the request was
\* received (the count taken with the insert).
ResumedOnSnapshot(rq, outcome, rs) ==
    Run(AfterSend(rq, Send(Recipient(rq), Subject(rq.pc), TRUE, outcome,
                           SendEmailSettled(outcome))),
        SelectSeq(rs, LAMBDA row : row.created_at <= rq.n))

\* sendEmail returns to the handler suspended in rq, which runs on.
Resumed(rq, outcome, rs) ==
    Run(AfterSend(rq, Send(Recipient(rq), Subject(rq.pc), TRUE, outcome,
                           SendEmailSettled(outcome))),
        rs)

-----------------------------------------------------------------------------
(* Handlers when a call of the store throws *)

\* err.message of what db.prepare(...).get/.run/.all throws when the store
\* fails.
StoreErrors == {"disk I/O error"}

\* The statements of the RSVP handler that call the store.
RsvpStoreCalls == {"existing", "insert", "event", "count"}

\* Control passes to the handler's `catch (err: any)`.
Caught(rq, err) == [rq EXCEPT !.pc = "catch"] @@ [err |-> err]

\* POST /api/events when stmt.run throws err (lines 231-243).
CreateHandlerFailing(rq, evs, rs, err) == Handled(Run(Caught(rq, err), rs), evs, rs)

\* The handler reaches the store call `at` (it did not answer before it).
RsvpReaches(rq, evs, rs, at) ==
    /\ Truthy(rq.email)
    /\ at # "existing" => ~ExistingRsvp(rs, rq.id, rq.email)
    /\ at \in {"event", "count"} => ForeignKeyOk(evs, rq.id)

\* POST /api/events/:id/rsvp, from the request to the first await or the
\* response, when the store call `at` throws err; the count (line 293) of a
\* handler that awaits the transport throws when it resumes.
RsvpHandlerFailing(rq, evs, rs, at, err) ==
    IF at \in {"existing", "insert"}
    THEN Handled(Run(Caught(rq, err), rs), evs, rs)
    ELSE LET stored == Append(rs, RsvpRow(rs, rq.id, rq.ip, rq.email,
                                           CurrentTimestamp(rq)))
             event == SelectEvent(evs, rq.id)
             sent == Run([rq EXCEPT !.event = event, !.pc = "sendUser"],
                         stored)
         IN  IF at = "event" \/ event = NoEvent
             THEN Handled(Run(Caught(rq, err), stored), evs, stored)
             ELSE IF sent.pc = "done"
             THEN Handled(Run(Caught([sent EXCEPT !.status = 0,
                                                  !.json = NoJson], err),
                              stored),
                          evs, stored)
             ELSE Handled(sent, evs, stored)

\* sendEmail returns to the handler suspended in rq, whose next store call
\* throws err.
ResumedFailing(rq, outcome, rs, err) ==
    LET after == AfterSend(rq, Send(Recipient(rq), Subject(rq.pc), TRUE,
                                    outcome, SendEmailSettled(outcome)))
    IN  IF after.pc = "count" THEN Run(Caught(after, err), rs)
        ELSE Run(after, rs)

\* Express's default error handler, which answers for a handler that throws:
\* the status text in production, err.stack (it begins with err.message)
\* otherwise.
DefaultErrorPage(production, err) ==
    IF production THEN [html |-> "Internal Server Error"] ELSE [html |-> err]

-----------------------------------------------------------------------------
(* Actions *)

Created(rq) ==
    rq.pc = "done" /\ rq.route = "POST /api/events" /\ rq.status = 200

\* The handler of rq has either sent its response or suspended at an await.
Dispatch(rq) ==
    /\ out' = IF rq.pc = "done" THEN rq ELSE NoOut
    /\ inflight' =
          LET waiting == IF rq.pc = "done"
                         THEN DOMAIN inflight \ {rq.n}
                         ELSE DOMAIN inflight \cup {rq.n}
          IN  [m \in waiting |-> IF m = rq.n THEN rq ELSE inflight[m]]
    /\ createLog' = IF Created(rq)
                    THEN createLog \cup {[n |-> rq.n, id |-> rq.json.id]}
                    ELSE createLog

\* app.post("/api/events", ...) receives a request with JSON body p.
PostEvents(p) ==
    LET h == CreateHandler(
                 Request(nreq + 1, "POST /api/events", NULL, p, NULL, NULL,
                         NoQuery),
                 events, rsvps)
    IN  /\ server = "serving"
        /\ nreq < MaxRequests
        /\ nreq' = nreq + 1
        /\ events' = h.events
        /\ rsvps' = h.rsvps
        /\ Dispatch(h.rq)
        /\ fresh' = IF Created(h.rq) THEN fresh \cup {h.rq.json.id} ELSE fresh
        /\ UNCHANGED <<server, columns, smtpUser, smtpHost, foreignKeys>>

\* app.post("/api/events/:id/rsvp", ...) receives a request.
PostRsvp(id, email, ip) ==
    LET h == RsvpHandler(
                 Request(nreq + 1, "POST /api/events/:id/rsvp", id, NoPayload,
                         email, ip, NoQuery),
                 events, rsvps)
    IN  /\ server = "serving"
        /\ nreq < MaxRequests
        /\ nreq' = nreq + 1
        /\ events' = h.events
        /\ rsvps' = h.rsvps
        /\ Dispatch(h.rq)
        /\ fresh' = {}
        /\ UNCHANGED <<server, columns, smtpUser, smtpHost, foreignKeys>>

\* transporter.sendMail settles for the handler of request n: sendEmail
\* returns and the handler runs on to its next await or to its response.
Settle(n, outcome) ==
    /\ server = "serving"
    /\ n \in DOMAIN inflight
    /\ IsAwaitPc(inflight[n].pc)
    /\ LET rq == Resumed(inflight[n], outcome, rsvps)
       IN  /\ Dispatch(rq)
           /\ fresh' = IF Created(rq) THEN fresh \cup {rq.json.id} ELSE fresh
    /\ UNCHANGED <<server, columns, smtpUser, smtpHost, foreignKeys, events, rsvps, nreq>>

\* app.get("/api/events", ...) receives a request with the query parameters.
GetEvents(query) ==
    /\ server = "serving"
    /\ \E rows \in ListEvents(events, rsvps, query) :
          out' = Reply(Request(0, "GET /api/events", NULL, NoPayload, NULL,
                               NULL, query),
                       200, [rows |-> rows])
    /\ UNCHANGED <<server, columns, smtpUser, smtpHost, foreignKeys, events, rsvps, inflight,
                   nreq, createLog, fresh>>

\* GET /api/events/:id/rsvps, which the page requests for the event it shows.
\* No route of startServer matches it, so the request falls through to the
\* page hosting (Vite's SPA middleware, or app.get("*") in production), which
\* answers with index.html.
GetRsvps(id) ==
    /\ server = "serving"
    /\ out' = Reply(Request(0, "GET /api/events/:id/rsvps", id, NoPayload,
                            NULL, NULL, NoQuery),
                    200, [html |-> "index.html"])
    /\ UNCHANGED <<server, columns, smtpUser, smtpHost, foreignKeys, events,
                   rsvps, inflight, nreq, createLog, fresh>>

\* The module is loaded: the tables are created and migrated, then
\* startServer() runs; an exception of the migrations ends the process.
Startup ==
    /\ server = "starting"
    /\ LET db == Migrations(Database(columns, events, rsvps, NoError))
       IN  /\ columns' = db.columns
           /\ events' = db.events
           /\ rsvps' = db.rsvps
           /\ server' = IF db.error = NoError THEN "serving" ELSE "exited"
    /\ UNCHANGED <<smtpUser, smtpHost, foreignKeys, inflight, nreq, out,
                   createLog, fresh>>

\* The process is stopped and started again on the same database file.
Restart ==
    /\ server \in {"serving", "exited"}
    /\ server' = "starting"
    /\ inflight' = [m \in {} |-> NoOut]
    /\ out' = NoOut
    /\ UNCHANGED <<columns, smtpUser, smtpHost, foreignKeys, events, rsvps,
                   nreq, createLog, fresh>>

\* POST /api/events whose INSERT throws err.
PostEventsFailing(p, err) ==
    LET h == CreateHandlerFailing(
                 Request(nreq + 1, "POST /api/events", NULL, p, NULL, NULL,
                         NoQuery),
                 events, rsvps, err)
    IN  /\ server = "serving"
        /\ nreq < MaxRequests
        /\ ~MissingCreatorEmail(p)
        /\ nreq' = nreq + 1
        /\ events' = h.events
        /\ rsvps' = h.rsvps
        /\ Dispatch(h.rq)
        /\ UNCHANGED <<server, columns, smtpUser, smtpHost, foreignKeys, fresh>>

\* POST /api/events/:id/rsvp whose store call `at` throws err.
PostRsvpFailing(id, email, ip, at, err) ==
    LET rq == Request(nreq + 1, "POST /api/events/:id/rsvp", id, NoPayload,
                      email, ip, NoQuery)
        h == RsvpHandlerFailing(rq, events, rsvps, at, err)
    IN  /\ server = "serving"
        /\ nreq < MaxRequests
        /\ RsvpReaches(rq, events, rsvps, at)
        /\ nreq' = nreq + 1
        /\ events' = h.events
        /\ rsvps' = h.rsvps
        /\ Dispatch(h.rq)
        /\ fresh' = {}
        /\ UNCHANGED <<server, columns, smtpUser, smtpHost, foreignKeys>>

\* transporter.sendMail settles for the handler of request n, whose COUNT(*)
\* then throws err.
SettleFailing(n, outcome, err) ==
    /\ server = "serving"
    /\ n \in DOMAIN inflight
    /\ inflight[n].pc = "awaitCreator"
    /\ Dispatch(ResumedFailing(inflight[n], outcome, rsvps, err))
    /\ UNCHANGED <<server, columns, smtpUser, smtpHost, foreignKeys, events,
                   rsvps, nreq, fresh>>

\* GET /api/events whose query throws err: the handler has no try block, so
\* Express answers; production is NODE_ENV = "production".
GetEventsFailing(query, production, err) ==
    /\ server = "serving"
    /\ out' = Reply(Request(0, "GET /api/events", NULL, NoPayload, NULL, NULL,
                            query),
                    500, DefaultErrorPage(production, err)) @@ [err |-> err]
    /\ UNCHANGED <<server, columns, smtpUser, smtpHost, foreignKeys, events,
                   rsvps, inflight, nreq, createLog, fresh>>

-----------------------------------------------------------------------------
(* Specifications *)

\* A request body of POST /api/events.
EventBody(title, description, location, date, time, proficiency, artist_type, creator_email) ==
    [title |-> title, description |-> description, playlist |-> <<>>,
     format |-> "memory", location |-> location, date |-> date,
     time |-> time, video_recorded |-> TRUE, proficiency |-> proficiency,
     artist_type |-> artist_type, creator_email |-> creator_email]

Organizer == <<"b", "@">>

Bodies ==
    {EventBody(<<"a">>, NULL, <<"S">>, <<"1">>, <<"1">>, <<"b">>, <<"a">>,
               creator) : creator \in {Organizer, NULL, <<>>}}
    \cup {EventBody(NULL, NULL, <<"S">>, <<"1">>, <<"1">>, <<"b">>, <<"a">>,
                    Organizer)}

RouteIds == {<<"1">>, <<"2">>}

Emails == {NULL, <<>>, <<"a">>, <<"A">>}

Ips == {<<"1">>}

Queries == {NoQuery}

\* Request bodies and query parameters for the listing: events that differ in
\* the filtered and the ordering columns ("10" sorts before "2"), and
\* parameters with a LIKE wildcard, in either letter case, empty and absent.
ListBodies ==
    {EventBody(<<"A", "b">>, NULL, <<"S">>, <<"2">>, <<"1">>, <<"a">>,
               <<"a">>, Organizer),
     EventBody(<<"b">>, <<"a">>, <<"S">>, <<"1", "0">>, <<"2">>, <<"b">>,
               <<"a">>, Organizer),
     EventBody(<<"B">>, NULL, <<"s">>, <<"2">>, <<"0">>, <<"a">>, <<"b">>,
               Organizer)}

ListQueries ==
    [q : {NULL, <<>>, <<"a">>, <<"_">>},
     location : {NULL, <<"s">>},
     proficiency : {NULL, <<"a">>},
     artist_type : {NULL, <<"a">>}]

\* The server after startup on a new database file.
Init ==
    /\ server = "serving"
    /\ columns = CurrentColumns
    /\ smtpUser \in BOOLEAN
    /\ smtpHost \in BOOLEAN
    /\ foreignKeys \in BOOLEAN
    /\ events = <<>>
    /\ rsvps = <<>>
    /\ inflight = [m \in {} |-> NoOut]
    /\ nreq = 0
    /\ out = NoOut
    /\ createLog = {}
    /\ fresh = {}

Next ==
    \/ \E p \in Bodies : PostEvents(p)
    \/ \E id \in RouteIds, email \in Emails, ip \in Ips : PostRsvp(id, email, ip)
    \/ \E n \in DOMAIN inflight, outcome \in TransportOutcomes : Settle(n, outcome)
    \/ \E query \in Queries : GetEvents(query)
    \/ \E id \in RouteIds : GetRsvps(id)

Spec == Init /\ [][Next]_vars

\* The listing on a server without mail configured.
InitList == Init /\ ~smtpUser /\ ~smtpHost

NextList ==
    \/ \E p \in ListBodies : PostEvents(p)
    \/ \E query \in ListQueries : GetEvents(query)

SpecList == InitList /\ [][NextList]_vars

\* Request bodies for the validation of POST /api/events: a complete one, and
\* for each required field one where it is absent and one where it is empty.
CompleteBody ==
    EventBody(<<"a">>, NULL, <<"S">>, <<"1">>, <<"1">>, <<"b">>, <<"a">>,
              Organizer)

IncompleteBodies ==
    {[CompleteBody EXCEPT ![f] = v] :
        f \in {"title", "location", "date", "time", "creator_email"},
        v \in {NULL, <<>>}}

\* Validation on a server without mail configured.
NextValidate ==
    \/ \E p \in {CompleteBody} \cup IncompleteBodies : PostEvents(p)
    \/ \E email \in {NULL, <<"a">>}, ip \in Ips : PostRsvp(<<"1">>, email, ip)

SpecValidate == InitList /\ [][NextValidate]_vars

\* RSVP requests from two network origins, and from one without address, with
\* emails that differ in letter case only.
OriginIps == {NULL, <<"1">>, <<"2">>}

NextOrigins ==
    \/ PostEvents(CompleteBody)
    \/ \E id \in RouteIds, email \in {<<"a">>, <<"A">>}, ip \in OriginIps :
          PostRsvp(id, email, ip)

SpecOrigins == InitList /\ [][NextOrigins]_vars

\* The server with a store that can fail at any call.
NextFailing ==
    \/ Next
    \/ \E err \in StoreErrors : PostEventsFailing(CompleteBody, err)
    \/ \E id \in RouteIds, at \in RsvpStoreCalls, err \in StoreErrors :
          PostRsvpFailing(id, <<"a">>, <<"1">>, at, err)
    \/ \E n \in DOMAIN inflight, outcome \in TransportOutcomes,
          err \in StoreErrors : SettleFailing(n, outcome, err)
    \/ \E query \in Queries, production \in BOOLEAN, err \in StoreErrors :
          GetEventsFailing(query, production, err)

SpecFailing == Init /\ [][NextFailing]_vars

\* Every path of the two POST handlers: refused, stored, suspended at each
\* notification, and failing at each store call.
NextAnswer ==
    \/ \E p \in {CompleteBody, [CompleteBody EXCEPT !.creator_email = NULL]} :
          PostEvents(p)
    \/ \E email \in {NULL, <<"a">>} : PostRsvp(<<"1">>, email, <<"1">>)
    \/ \E n \in DOMAIN inflight, outcome \in TransportOutcomes :
          Settle(n, outcome)
    \/ \E err \in StoreErrors : PostEventsFailing(CompleteBody, err)
    \/ \E at \in RsvpStoreCalls, err \in StoreErrors :
          PostRsvpFailing(<<"1">>, <<"a">>, <<"1">>, at, err)
    \/ \E n \in DOMAIN inflight, outcome \in TransportOutcomes,
          err \in StoreErrors : SettleFailing(n, outcome, err)

\* transporter.sendMail settles every call: it resolves, or it rejects, at the
\* latest when the connection, greeting or socket timeout runs out.  Stated
\* in its weakest form: while attempts are pending, one of them settles.
AttemptsSettle ==
    WF_vars(\E n \in DOMAIN inflight, outcome \in TransportOutcomes :
               Settle(n, outcome))

SpecAnswer == Init /\ [][NextAnswer]_vars /\ AttemptsSettle

\* Rows of earlier runs, as a table with the columns cols holds them.
Stored(row, cols) == [c \in cols |-> row[c]]

StoredEvents ==
    <<EventRow(1, CompleteBody, 1),
      EventRow(2, [CompleteBody EXCEPT !.title = <<"b">>,
                                       !.description = <<"a">>], 3)>>

StoredRsvps ==
    <<RsvpRow(<<>>, <<"1">>, <<"1">>, <<"a">>, 2),
      RsvpRow(<<[id |-> 1]>>, <<"2">>, NULL, <<"b">>, 4),
      RsvpRow(<<[id |-> 1], [id |-> 2]>>, <<"1">>, <<"2">>, <<"A">>, 5)>>

\* The database files the server can be started on: a new one, and one left
\* by any version of the server (each table with or without the column added
\* later), holding none or some of the rows above; the first and the third
\* RSVP row are of the same event and of different user_identifiers.
DatabaseFiles ==
    {Database([events |-> {}, rsvps |-> {}], <<>>, <<>>, NoError)}
    \cup {Database([events |-> ec, rsvps |-> rc],
                   [i \in 1..ne |-> Stored(StoredEvents[i], ec)],
                   [i \in 1..nr |-> Stored(StoredRsvps[i], rc)], NoError) :
             ec \in {OriginalEventsColumns, EventsColumns},
             rc \in {OriginalRsvpsColumns, RsvpsColumns},
             ne \in 0..Len(StoredEvents), nr \in 0..Len(StoredRsvps)}

\* The process is started on some database file.
InitMigrate ==
    /\ server = "starting"
    /\ \E db \in DatabaseFiles :
          /\ columns = db.columns
          /\ events = db.events
          /\ rsvps = db.rsvps
    /\ smtpUser \in BOOLEAN
    /\ smtpHost \in BOOLEAN
    /\ foreignKeys \in BOOLEAN
    /\ inflight = [m \in {} |-> NoOut]
    /\ nreq = 0
    /\ out = NoOut
    /\ createLog = {}
    /\ fresh = {}

NextMigrate == Startup \/ Restart

SpecMigrate == InitMigrate /\ [][NextMigrate]_vars

-----------------------------------------------------------------------------
(* Properties *)

IsCreate(rq) == rq.route = "POST /api/events"

IsRsvp(rq) == rq.route = "POST /api/events/:id/rsvp"

IsList(rq) == rq.route = "GET /api/events"

\* Right after a POST request is received: that request, suspended or answered.
LastReceived == IF nreq \in DOMAIN inflight THEN inflight[nreq] ELSE out

\* This step receives a POST request.
Receives == nreq' = nreq + 1

\* The step changes neither table and starts no notification.
MutatesNothing ==
    /\ events' = events
    /\ rsvps' = rsvps
    /\ inflight' = inflight
    /\ out'.sends = <<>>

\* C1: starting from an empty store, in every reachable state and under every
\* interleaving of POST /events and POST /events/{id}/rsvp requests, no two
\* RSVP rows have the same (event_id, email).
C1_OneRsvpPerEventAndEmail ==
    \A i, j \in DOMAIN rsvps :
        (rsvps[i].event_id = rsvps[j].event_id /\ rsvps[i].email = rsvps[j].email)
            => i = j

\* A second request for a pair is refused while the first is still sending
\* its notifications.
C1_Witness ==
    /\ IsRsvp(out) /\ out.status = 400 /\ Truthy(out.email)
    /\ \E n \in DOMAIN inflight :
          /\ IsRsvp(inflight[n])
          /\ ToInteger(inflight[n].id) = ToInteger(out.id)
          /\ inflight[n].email = out.email
    /\ \E i \in DOMAIN rsvps :
          rsvps[i].event_id = ToInteger(out.id) /\ rsvps[i].email = out.email

\* C2: an RSVP request for an (eventId, email) that already has a row is
\* answered 400 "already RSVP'd" in the step that receives it, and that step
\* changes no table and attempts no notification.
C2_DuplicateRsvpRejected ==
    [][(/\ Receives
        /\ IsRsvp(LastReceived')
        /\ \E i \in DOMAIN rsvps :
              /\ rsvps[i].event_id = ToInteger(LastReceived'.id)
              /\ rsvps[i].email = LastReceived'.email)
       => (/\ out' = LastReceived'
           /\ out'.status = 400
           /\ out'.json = [error |-> "This email has already RSVP'd"]
           /\ MutatesNothing)]_vars

C2_Witness ==
    /\ IsRsvp(out) /\ out.status = 400
    /\ out.json = [error |-> "This email has already RSVP'd"]
    /\ out.sends = <<>>
    /\ Cardinality({i \in DOMAIN rsvps :
                      /\ rsvps[i].event_id = ToInteger(out.id)
                      /\ rsvps[i].email = out.email}) = 1

\* C3: POST /events with an empty or absent creator_email is answered 400 in
\* the step that receives it, stores no event row and attempts no
\* notification.
C3_CreateWithoutCreatorEmailFails ==
    [][(/\ Receives
        /\ IsCreate(LastReceived')
        /\ LastReceived'.payload.creator_email \in {NULL, <<>>})
       => (/\ out' = LastReceived'
           /\ out'.status = 400
           /\ MutatesNothing)]_vars

C3_Witness ==
    /\ IsCreate(out) /\ out.status = 400
    /\ out.payload.creator_email = <<>>
    /\ out.payload.title # NULL
    /\ out.sends = <<>>
    /\ Len(events) = 1

\* A body POST /api/events accepts: creator_email non-empty and the four
\* NOT NULL columns given.
ValidBody(p) ==
    /\ p.creator_email \notin {NULL, <<>>}
    /\ NULL \notin {p.title, p.location, p.date, p.time}

Unfiltered(query) ==
    /\ query.q \in {NULL, <<>>}
    /\ query.location \in {NULL, <<>>}
    /\ query.proficiency \in {NULL, <<>>}
    /\ query.artist_type \in {NULL, <<>>}

ListedIds == {out.json.rows[k].id : k \in DOMAIN out.json.rows}

ListedRow(id) ==
    out.json.rows[CHOOSE k \in DOMAIN out.json.rows : out.json.rows[k].id = id]

\* Ids rise in the order the create requests were received.
CreateIdsIncrease == \A a, b \in createLog : a.n < b.n => a.id < b.id

\* A create with a valid body is answered 200 with the id of its stored row.
ValidCreateReturnsId ==
    (IsCreate(out) /\ ValidBody(out.payload)) =>
        /\ out.status = 200
        /\ \E i \in DOMAIN events :
              events[i].id = out.json.id /\ events[i].title = out.payload.title

Answer(rq) == <<rq.pc, rq.status, rq.json>>

IsPostResponse(rq) == IsCreate(rq) \/ IsRsvp(rq)

\* C5: for POST /events and POST /events/{id}/rsvp, whichever way a pending
\* notification attempt ends, the handler goes on to the same position, status
\* and body; and a request that attempted a notification is answered 200 with
\* its row stored (the event's id, or the event's current RSVP count).
C5_NotificationOutcomeNeverChangesResponse ==
    /\ \A n \in DOMAIN inflight : \A o1, o2 \in TransportOutcomes :
          Answer(Resumed(inflight[n], o1, rsvps))
              = Answer(Resumed(inflight[n], o2, rsvps))
    /\ (IsCreate(out) /\ out.sends # <<>>) =>
          /\ out.status = 200
          /\ \E i \in DOMAIN events :
                /\ events[i].id = out.json.id
                /\ events[i].creator_email = out.payload.creator_email
    /\ (IsRsvp(out) /\ out.sends # <<>>) =>
          /\ out.status = 200
          /\ \E i \in DOMAIN rsvps :
                /\ rsvps[i].event_id = ToInteger(out.id)
                /\ rsvps[i].email = out.email
          /\ out.json.rsvp_count =
                Cardinality({i \in DOMAIN rsvps :
                                rsvps[i].event_id = ToInteger(out.id)})

\* An RSVP answered 200 after its confirmation failed and its alert was sent.
C5_Witness ==
    /\ IsRsvp(out) /\ out.status = 200 /\ Len(out.sends) = 2
    /\ out.sends[1].transport /\ ~out.sends[1].result.success
    /\ out.sends[2].transport /\ out.sends[2].result.success

\* Every call of sendEmail made by a request not yet forgotten.
AllSends ==
    (IF IsPostResponse(out) THEN {out.sends[k] : k \in DOMAIN out.sends} ELSE {})
    \cup UNION {{inflight[n].sends[k] : k \in DOMAIN inflight[n].sends} :
                   n \in DOMAIN inflight}

\* C6: sendEmail never raises to its caller: when the transport rejects it
\* returns {success: false, error: <the rejection's message>}, when the
\* transport resolves it returns {success: true, messageId}.
C6_SendEmailNeverRaises ==
    \A s \in AllSends :
        /\ ~s.result.raised
        /\ (s.transport /\ s.outcome.ok) =>
              /\ s.result.success
              /\ s.result.messageId = s.outcome.messageId
        /\ (s.transport /\ ~s.outcome.ok) =>
              /\ ~s.result.success
              /\ s.result.error = s.outcome.message

C6_Witness ==
    /\ IsPostResponse(out)
    /\ \E k \in DOMAIN out.sends :
          /\ out.sends[k].transport
          /\ out.sends[k].outcome = Rejected("ETIMEDOUT")
          /\ out.sends[k].result.error = "ETIMEDOUT"
    /\ \E k \in DOMAIN out.sends :
          /\ out.sends[k].transport
          /\ out.sends[k].outcome = Delivered
          /\ out.sends[k].result.success

\* C7: when SMTP_HOST or SMTP_USER is not set, every sendEmail call returns
\* {success: false, error: "SMTP not configured"} without calling the
\* transport, and the request that made it completes in the step that
\* receives it: a valid create stores its row and is answered 200 with the id
\* after one such call, an RSVP for a stored event with a new email stores
\* its row and is answered 200 with the count after two.
C7_UnconfiguredSmtpSkipsTransport ==
    [][(Receives /\ ~(smtpUser /\ smtpHost))
       => (/\ out' = LastReceived'
           /\ inflight' = inflight
           /\ \A k \in DOMAIN out'.sends :
                 /\ ~out'.sends[k].transport
                 /\ ~out'.sends[k].result.raised
                 /\ ~out'.sends[k].result.success
                 /\ out'.sends[k].result.error = "SMTP not configured"
           /\ (IsCreate(out') /\ ValidBody(out'.payload)) =>
                 /\ out'.status = 200
                 /\ Len(out'.sends) = 1
                 /\ Len(events') = Len(events) + 1
                 /\ events'[Len(events')].id = out'.json.id
           /\ (/\ IsRsvp(out')
               /\ out'.email \notin {NULL, <<>>}
               /\ \E i \in DOMAIN events : events[i].id = ToInteger(out'.id)
               /\ \A i \in DOMAIN rsvps :
                     ~(/\ rsvps[i].event_id = ToInteger(out'.id)
                       /\ rsvps[i].email = out'.email)) =>
                 /\ out'.status = 200
                 /\ Len(out'.sends) = 2
                 /\ Len(rsvps') = Len(rsvps) + 1
                 /\ rsvps'[Len(rsvps')].email = out'.email
                 /\ out'.json.rsvp_count >= 1)]_vars

C7_Witness ==
    /\ smtpUser /\ ~smtpHost
    /\ IsRsvp(out) /\ out.status = 200 /\ Len(out.sends) = 2
    /\ \A k \in DOMAIN out.sends :
          /\ ~out.sends[k].transport
          /\ out.sends[k].result.error = "SMTP not configured"
    /\ inflight = [m \in {} |-> NoOut]

\* needle occurs in text.
Substring(needle, text) ==
    \E i \in 0..(Len(text) - Len(needle)) :
        SubSeq(text, i + 1, i + Len(needle)) = needle

Lower(text) == [i \in DOMAIN text |-> Fold(text[i])]

\* needle occurs in the column, letter case ignored; never in a NULL column.
SubstringNoCase(needle, column) ==
    column # NULL /\ Substring(Lower(needle), Lower(column))

\* The filters as C8 states them.
SatisfiesFilters(e, query) ==
    /\ query.q \notin {NULL, <<>>} =>
          \/ SubstringNoCase(query.q, e.title)
          \/ SubstringNoCase(query.q, e.description)
          \/ SubstringNoCase(query.q, e.playlist)
    /\ query.location \notin {NULL, <<>>} =>
          e.location # NULL /\ Substring(query.location, e.location)
    /\ query.proficiency \notin {NULL, <<>>} =>
          e.proficiency = query.proficiency
    /\ query.artist_type \notin {NULL, <<>>} =>
          e.artist_type = query.artist_type

\* C8: GET /events returns exactly the stored events that satisfy every
\* supplied filter: q a case-insensitive substring of title, description or
\* playlist, location a substring of the location, proficiency and
\* artist_type equal; an absent or empty filter restricts nothing.
C8_ListReturnsExactlyTheMatches ==
    IsList(out) =>
        /\ ListedIds = {events[i].id :
                          i \in {j \in DOMAIN events :
                                    SatisfiesFilters(events[j], out.query)}}
        /\ Cardinality(ListedIds) = Len(out.json.rows)

\* C9: GET /events returns the events by date ascending and, for equal dates,
\* by time ascending, both compared as strings, whatever the insertion order.
C9_ListSortedByDateThenTime ==
    IsList(out) =>
        \A k \in 1..(Len(out.json.rows) - 1) :
            LET a == out.json.rows[k]
                b == out.json.rows[k + 1]
            IN  \/ StrLess(a.date, b.date)
                \/ a.date = b.date /\ ~StrLess(b.time, a.time)

\* Inserted with dates "2", "10", "2" and times "1", "2", "0": listed as the
\* second ("10" sorts before "2"), then the third, then the first.
C9_Witness ==
    /\ IsList(out)
    /\ Len(out.json.rows) = 3
    /\ out.json.rows[1].id = 2 /\ out.json.rows[1].date = <<"1", "0">>
    /\ out.json.rows[2].id = 3 /\ out.json.rows[2].time = <<"0">>
    /\ out.json.rows[3].id = 1 /\ out.json.rows[3].time = <<"1">>
    /\ out.json.rows[2].date = out.json.rows[3].date

\* C10: every event GET /events returns carries as rsvp_count the number of
\* RSVP rows whose event_id is its id at the time of the query.
C10_ListCountsRsvpRows ==
    IsList(out) =>
        \A k \in DOMAIN out.json.rows :
            out.json.rows[k].rsvp_count =
                Cardinality({i \in DOMAIN rsvps :
                                rsvps[i].event_id = out.json.rows[k].id})

\* Two events listed, one with an RSVP and one without.
C10_Witness ==
    /\ IsList(out)
    /\ Len(out.json.rows) = 2
    /\ \E k \in DOMAIN out.json.rows : out.json.rows[k].rsvp_count = 1
    /\ \E k \in DOMAIN out.json.rows : out.json.rows[k].rsvp_count = 0
    /\ Len(rsvps) = 1

\* C11: a POST /events/{id}/rsvp answered 200 returns as rsvp_count the number
\* of RSVP rows stored for that event when the response is produced; the row
\* of this request is one of them, so rsvp_count >= 1.
C11_RsvpReturnsCurrentCount ==
    (IsRsvp(out) /\ out.status = 200) =>
        /\ out.json.rsvp_count =
              Cardinality({i \in DOMAIN rsvps :
                              rsvps[i].event_id = ToInteger(out.id)})
        /\ \E i \in DOMAIN rsvps :
              /\ rsvps[i].event_id = ToInteger(out.id)
              /\ rsvps[i].email = out.email
              /\ rsvps[i].created_at = out.n
        /\ out.json.rsvp_count >= 1

\* The count includes a row that another request stored while this one was
\* sending its notifications.
C11_Witness ==
    /\ IsRsvp(out) /\ out.status = 200
    /\ out.json.rsvp_count = 2
    /\ Len(out.sends) = 2
    /\ \E i, j \in DOMAIN rsvps :
          /\ rsvps[i].event_id = ToInteger(out.id)
          /\ rsvps[i].created_at = out.n
          /\ rsvps[j].event_id = ToInteger(out.id)
          /\ rsvps[j].created_at > out.n

RequiredEventFields == {"title", "location", "date", "time", "creator_email"}

\* C12: every event row stored through POST /events has non-empty title,
\* location, date, time and creator_email (a create request in which one of
\* them is absent or empty stores no row).
C12_StoredEventsHaveRequiredFields ==
    \A i \in DOMAIN events : \A f \in RequiredEventFields :
        events[i][f] \notin {NULL, <<>>}

\* C13: a request that lacks a required field (title, location, date, time or
\* creator_email of POST /events, email of POST /events/{id}/rsvp) is answered
\* 400 with a message, never 200 or 500.
C13_MissingFieldAnswered400 ==
    /\ (IsCreate(out) /\ \E f \in RequiredEventFields : out.payload[f] = NULL)
          => (out.status = 400 /\ DOMAIN out.json = {"error"})
    /\ (IsRsvp(out) /\ out.email = NULL)
          => (out.status = 400 /\ DOMAIN out.json = {"error"})

\* The response shows the store's error.
ShowsStoreError(rq) == \E f \in DOMAIN rq.json : rq.json[f] = rq.err

\* C14: when a store call fails while GET /events, POST /events or
\* POST /events/{id}/rsvp is handled, the response is 500 with a generic
\* message that shows nothing of the store's error.
C14_StoreFailureAnswered500Generic ==
    "err" \in DOMAIN out => (out.status = 500 /\ ~ShowsStoreError(out))

IsRsvpList(rq) == rq.route = "GET /api/events/:id/rsvps"

\* C15: GET /events/{id}/rsvps returns an array of {email, created_at} with
\* exactly one entry for each RSVP row recorded for event id.
C15_RsvpListHasOneEntryPerRow ==
    IsRsvpList(out) =>
        /\ DOMAIN out.json = {"rows"}
        /\ \A k \in DOMAIN out.json.rows :
              DOMAIN out.json.rows[k] = {"email", "created_at"}
        /\ \E order \in [DOMAIN out.json.rows ->
                            {i \in DOMAIN rsvps :
                                rsvps[i].event_id = ToInteger(out.id)}] :
              /\ \A k, l \in DOMAIN order : order[k] = order[l] => k = l
              /\ \A i \in DOMAIN rsvps :
                    rsvps[i].event_id = ToInteger(out.id)
                        => \E k \in DOMAIN order : order[k] = i
              /\ \A k \in DOMAIN order :
                    /\ out.json.rows[k].email = rsvps[order[k]].email
                    /\ out.json.rows[k].created_at = rsvps[order[k]].created_at

Tables == {"events", "rsvps"}

\* The store is what it was before the step.
StoreUnchanged ==
    columns' = columns /\ events' = events /\ rsvps' = rsvps

\* C16: the startup schema/migration step, run on a store of any schema
\* version, completes without error and leaves both tables with the full
\* current column set; run on its own result it raises no error, adds no
\* column and changes nothing.
C16_MigrationCompletesAndIsIdempotent ==
    [][server = "starting"
       => (/\ server' = "serving"
           /\ columns' = CurrentColumns
           /\ \A i \in DOMAIN events' : DOMAIN events'[i] = EventsColumns
           /\ \A i \in DOMAIN rsvps' : DOMAIN rsvps'[i] = RsvpsColumns
           /\ columns = CurrentColumns => StoreUnchanged)]_vars

\* A store the step has migrated, with the step about to run on it again.
C16_Witness ==
    /\ server = "starting"
    /\ columns = CurrentColumns
    /\ \E i \in DOMAIN events : events[i].creator_email = UnknownEmail
    /\ \E i \in DOMAIN rsvps : rsvps[i].email = UnknownEmail

\* C17: the startup schema/migration step removes no table and no column, and
\* every row present before it is present after it, in its place, with the
\* value it had in every column that existed.
C17_MigrationKeepsData ==
    [][server = "starting"
       => (/\ \A t \in Tables : columns[t] \subseteq columns'[t]
           /\ Len(events') = Len(events)
           /\ \A i \in DOMAIN events : \A c \in columns.events :
                 events'[i][c] = events[i][c]
           /\ Len(rsvps') = Len(rsvps)
           /\ \A i \in DOMAIN rsvps : \A c \in columns.rsvps :
                 rsvps'[i][c] = rsvps[i][c])]_vars

\* Both tables migrated with their two rows each kept.
C17_Witness ==
    /\ server = "serving"
    /\ Len(events) = 2 /\ Len(rsvps) = 2
    /\ \A i \in DOMAIN events :
          events[i].creator_email = UnknownEmail /\ events[i].id = i
    /\ \A i \in DOMAIN rsvps :
          rsvps[i].email = UnknownEmail /\ rsvps[i].event_id = i
    /\ events[2].title = <<"b">>

\* C18: no request updates or deletes an Event or RSVP row: in every step
\* each table keeps every row it had, in its place, with every field
\* (id and created_at included) as it was.
C18_RowsNeverChangeOrDisappear ==
    [][/\ Len(events') >= Len(events)
       /\ \A i \in DOMAIN events : events'[i] = events[i]
       /\ Len(rsvps') >= Len(rsvps)
       /\ \A i \in DOMAIN rsvps : rsvps'[i] = rsvps[i]]_vars

\* A repeated RSVP has been refused and the rows of the first two requests
\* are as they were stored.
C18_Witness ==
    /\ IsRsvp(out) /\ out.status = 400 /\ out.n = 3
    /\ Len(events) = 1 /\ events[1].created_at = 1
    /\ Len(rsvps) = 1 /\ rsvps[1].created_at = 2
    /\ rsvps[1].email = out.email

RowStored(rq) ==
    IF IsCreate(rq)
    THEN \E i \in DOMAIN events :
            events[i].id = rq.eventId /\ events[i].created_at = rq.n
    ELSE \E i \in DOMAIN rsvps :
            /\ rsvps[i].event_id = ToInteger(rq.id)
            /\ rsvps[i].email = rq.email
            /\ rsvps[i].created_at = rq.n

\* The sendEmail calls the handler of rq makes.
NotificationsDue(rq) ==
    IF IsCreate(rq) THEN 1 ELSE IF rq.event # NoEvent THEN 2 ELSE 0

\* C20: for POST /events and POST /events/{id}/rsvp the row is stored before
\* a notification attempt of the request begins (whenever an attempt is
\* pending or made, the row is there), and the response is sent only after
\* every notification attempt of the request has completed or failed.
C20_StoreThenNotifyThenRespond ==
    /\ \A n \in DOMAIN inflight :
          /\ RowStored(inflight[n])
          /\ inflight[n].status = 0
          /\ Len(inflight[n].sends) < NotificationsDue(inflight[n])
    /\ (IsPostResponse(out) /\ out.status = 200) =>
          /\ RowStored(out)
          /\ out.n \notin DOMAIN inflight
          /\ Len(out.sends) = NotificationsDue(out)
          /\ \A k \in DOMAIN out.sends :
                out.sends[k].transport => out.sends[k].outcome \in TransportOutcomes

\* An RSVP answered after its confirmation failed and its alert was
\* delivered, while a create is still waiting for the transport.
C20_Witness ==
    /\ IsRsvp(out) /\ out.status = 200 /\ Len(out.sends) = 2
    /\ out.sends[1].outcome = Rejected("ETIMEDOUT")
    /\ out.sends[2].outcome = Delivered
    /\ \E n \in DOMAIN inflight :
          IsCreate(inflight[n]) /\ inflight[n].pc = "awaitCreated"

\* A POST request the model still holds: suspended, or answered by the last
\* step.
PostRequests ==
    {inflight[n] : n \in DOMAIN inflight}
    \cup (IF IsPostResponse(out) THEN {out} ELSE {})

\* The notifications a request has attempted so far, the pending one last.
Attempted(rq) ==
    [k \in DOMAIN rq.sends |-> rq.sends[k].subject]
    \o (IF IsAwaitPc(rq.pc) THEN <<Subject(rq.pc)>> ELSE <<>>)

\* The request numbered n after a step: still suspended, or answered.
AfterStep(n) == IF n \in DOMAIN inflight' THEN inflight'[n] ELSE out'

\* A step adds to a suspended request at most the outcome of the attempt it
\* was waiting for.
AddsOnlyThePendingAttempt ==
    \A n \in DOMAIN inflight :
       \/ AfterStep(n).sends = inflight[n].sends
       \/ /\ Len(AfterStep(n).sends) = Len(inflight[n].sends) + 1
          /\ SubSeq(AfterStep(n).sends, 1, Len(inflight[n].sends))
                = inflight[n].sends
          /\ AfterStep(n).sends[Len(AfterStep(n).sends)].subject
                = Subject(inflight[n].pc)

\* C21: each notification is attempted at most once.  A request never
\* attempts the same notification twice, whatever the outcome of the first
\* attempt (no retry); an answered create has made exactly one attempt, to
\* its creator_email; an answered RSVP whose event was found has made exactly
\* two; and a step adds to a suspended request nothing but the outcome of the
\* one attempt it is waiting for.
C21_EachNotificationAttemptedOnce ==
    /\ [](\A rq \in PostRequests :
             \A j, k \in DOMAIN Attempted(rq) :
                j # k => Attempted(rq)[j] # Attempted(rq)[k])
    /\ []((IsCreate(out) /\ out.status = 200) =>
             /\ Len(out.sends) = 1
             /\ out.sends[1].to = out.payload.creator_email)
    /\ []((IsRsvp(out) /\ out.status = 200 /\ out.event # NoEvent) =>
             Len(out.sends) = 2)
    /\ [][AddsOnlyThePendingAttempt]_vars

\* A create answered 200 after the transport rejected its only attempt, with
\* nothing left waiting for the transport.
C21_Witness ==
    /\ IsCreate(out) /\ out.status = 200
    /\ Len(out.sends) = 1
    /\ out.sends[1].outcome = Rejected("ETIMEDOUT")
    /\ DOMAIN inflight = {}

\* The RSVP rows of the pair (event id, email) of request rq in table rs.
RowsOfPair(rs, rq) ==
    {i \in DOMAIN rs :
        rs[i].event_id = ToInteger(rq.id) /\ rs[i].email = rq.email}

\* The RSVP requests that passed the existence check: suspended at a
\* notification, or answered 200 by the last step.
PassedCheck ==
    {rq \in PostRequests : IsRsvp(rq) /\ rq.status \in {0, 200}}

ParentStored(rq) ==
    \E i \in DOMAIN events : events[i].id = ToInteger(rq.id)

\* C23: an RSVP whose parent event is found attempts the confirmation to the
\* RSVP'ing email first and the alert to the event's creator_email second,
\* the second whether the first succeeded or failed: while it waits for the
\* confirmation nothing has been attempted, while it waits for the alert
\* exactly the confirmation has, and when it is answered 200 both have.  An
\* RSVP whose parent event is not found attempts no notification.
C23_ConfirmationThenCreatorAlert ==
    \A rq \in PostRequests :
       IsRsvp(rq) =>
          /\ Len(rq.sends) <= 2
          /\ Len(rq.sends) >= 1 =>
                /\ rq.sends[1].subject = "RSVP Confirmation"
                /\ rq.sends[1].to = rq.email
          /\ Len(rq.sends) = 2 =>
                /\ rq.sends[2].subject = "New RSVP"
                /\ rq.sends[2].to = rq.event.creator_email
          /\ rq.pc = "awaitUser" => rq.sends = <<>>
          /\ rq.pc = "awaitCreator" => Len(rq.sends) = 1
          /\ rq.status = 200 =>
                /\ (rq.event # NoEvent) = ParentStored(rq)
                /\ Len(rq.sends) = (IF ParentStored(rq) THEN 2 ELSE 0)
          /\ rq.status = 0 => (rq.event # NoEvent /\ ParentStored(rq))

\* An RSVP answered 200 whose confirmation the transport rejected and whose
\* alert to the organizer was attempted all the same.
C23_Witness ==
    /\ IsRsvp(out) /\ out.status = 200
    /\ Len(out.sends) = 2
    /\ out.sends[1].to = out.email
    /\ ~out.sends[1].result.success
    /\ out.sends[1].outcome = Rejected("ETIMEDOUT")
    /\ out.sends[2].to = Organizer
    /\ out.sends[2].subject = "New RSVP"

\* C24: RSVP uniqueness is keyed on exactly (event_id, email), compared
\* case-sensitively.  An RSVP request with an email is answered 400 exactly
\* when a row with its event id and exactly its email is stored, whatever the
\* user_identifier of that row and of the request; otherwise its row is
\* stored and it is answered 200 (or the store refuses the row for want of
\* the event and it is answered 500).
C24_UniquenessKeyedOnEventAndEmail ==
    [][(/\ Receives
        /\ IsRsvp(out')
        /\ Truthy(out'.email))
       => (/\ (out'.status = 400) = (RowsOfPair(rsvps, out') # {})
           /\ RowsOfPair(rsvps, out') = {} =>
                 IF foreignKeys /\ ~ParentStored(out')
                 THEN out'.status = 500 /\ rsvps' = rsvps
                 ELSE /\ out'.status = 200
                      /\ Len(rsvps') = Len(rsvps) + 1
                      /\ RowsOfPair(rsvps', out') = {Len(rsvps')}
                      /\ rsvps'[Len(rsvps')].user_identifier
                            = UserIdentifier(out'.ip))]_vars

\* Two rows of one event from the same origin whose emails differ in case
\* only, and a third request with the email of the first from another origin
\* refused.
C24_Witness ==
    /\ IsRsvp(out) /\ out.status = 400
    /\ \E i, j \in DOMAIN rsvps :
          /\ rsvps[i].event_id = rsvps[j].event_id
          /\ rsvps[i].user_identifier = rsvps[j].user_identifier
          /\ rsvps[i].email = <<"a">>
          /\ rsvps[j].email = <<"A">>
          /\ rsvps[i].event_id = ToInteger(out.id)
          /\ out.email = rsvps[i].email
          /\ UserIdentifier(out.ip) # rsvps[i].user_identifier

\* C25: after the startup migration of a store of the original schema, whose
\* RSVP rows have no email and where one event may have several rows that
\* differ in user_identifier only, the store the server serves from has at
\* most one RSVP row per (event_id, email).
C25_MigratedStoreHasOneRsvpPerPair ==
    server = "serving" =>
       \A i \in DOMAIN rsvps : \A j \in DOMAIN rsvps \ {i} :
          <<rsvps[i].event_id, rsvps[i].email>>
             # <<rsvps[j].event_id, rsvps[j].email>>

\* The place in table rsvps of the row request rq stored.
OwnRow(rq) ==
    CHOOSE i \in DOMAIN rsvps :
       /\ rsvps[i].event_id = ToInteger(rq.id)
       /\ rsvps[i].email = rq.email
       /\ rsvps[i].created_at = rq.n

\* The rows of the event of rq up to and including its own: the count right
\* after its insert.
RowsUpToOwn(rq) ==
    {i \in DOMAIN rsvps :
        rsvps[i].event_id = ToInteger(rq.id) /\ i <= OwnRow(rq)}

\* The rows of the event of rq stored after its own.
RowsAfterOwn(rq) ==
    {i \in DOMAIN rsvps :
        rsvps[i].event_id = ToInteger(rq.id) /\ i > OwnRow(rq)}

\* C26 as stated: the rsvp_count of an RSVP answered 200 is the number of
\* rows of the event right after the request's own insert.
C26_Original ==
    (IsRsvp(out) /\ out.status = 200) =>
        out.json.rsvp_count = Cardinality(RowsUpToOwn(out))

\* C26, amended: the rsvp_count of an RSVP answered 200 is the number of rows
\* of the event right after the request's own insert plus the number of rows
\* that requests received later stored for the event while this request
\* waited for the transport; a request that never waited for the transport
\* (mail not configured, or no event found) has none of the latter.
C26_CountIncludesRowsStoredMeanwhile ==
    (IsRsvp(out) /\ out.status = 200) =>
        /\ out.json.rsvp_count
              = Cardinality(RowsUpToOwn(out)) + Cardinality(RowsAfterOwn(out))
        /\ \A i \in RowsAfterOwn(out) : rsvps[i].created_at > out.n
        /\ (\A k \in DOMAIN out.sends : ~out.sends[k].transport)
              => RowsAfterOwn(out) = {}

\* The first RSVP of an event is answered with rsvp_count 2: a second one
\* was stored while the first waited for the transport.
C26_Witness ==
    /\ IsRsvp(out) /\ out.status = 200
    /\ Cardinality(RowsUpToOwn(out)) = 1
    /\ Cardinality(RowsAfterOwn(out)) = 1
    /\ out.json.rsvp_count = 2
    /\ out.sends[1].transport

\* C27: a POST /events or POST /events/{id}/rsvp request answered 400 or 500
\* has added no row to the store and has attempted no notification, also
\* when a store call of its handler fails.
C27_RefusedRequestLeavesNoTrace ==
    (IsPostResponse(out) /\ out.status \in {400, 500}) =>
        /\ ~RowStored(out)
        /\ out.sends = <<>>

\* Table events with the creator_email of every row replaced by email.
WithCreatorEmail(evs, email) ==
    [i \in DOMAIN evs |-> [evs[i] EXCEPT !.creator_email = email]]

\* C28: GET /events does not disclose the creator_email of an event: the
\* response it gives on the store is also a response it gives on a store
\* that differs from it in the creator_email values only.
C28_ListDoesNotDiscloseCreatorEmail ==
    (IsList(out) /\ out.status = 200) =>
        \A email \in {Organizer, UnknownEmail} :
           out.json.rows
              \in ListEvents(WithCreatorEmail(events, email), rsvps, out.query)

\* A response of a POST handler: a status and a body, the handler at its end.
Responded(rq) ==
    /\ IsPostResponse(rq)
    /\ rq.pc = "done"
    /\ rq.status \in {200, 400, 500}
    /\ rq.json # NoJson

\* The step answers a request that has had no response: the one it receives,
\* or one that was suspended; and it leaves that request nowhere to be
\* answered from again.
AnswersOnce ==
    IsPostResponse(out') =>
       /\ Responded(out')
       /\ IF Receives
          THEN out'.n = nreq'
          ELSE out'.n \in DOMAIN inflight /\ inflight[out'.n].status = 0
       /\ out'.n \notin DOMAIN inflight'

\* C29: every POST /events and POST /events/{id}/rsvp request gets exactly
\* one response.  Provided each notification attempt completes or fails, a
\* request that is not answered in the step that receives it is answered
\* later, on every path of its handler, with 200, 400 or 500; and no step
\* answers a request that has been answered.
C29_ExactlyOneResponse ==
    /\ \A n \in 1..MaxRequests :
          (n \in DOMAIN inflight) ~> (n \notin DOMAIN inflight)
    /\ [][AnswersOnce]_vars

\* An RSVP answered 500 from its catch block after both notification
\* attempts, with no request left waiting.
C29_Witness ==
    /\ IsRsvp(out) /\ out.status = 500
    /\ Len(out.sends) = 2
    /\ out.sends[2].transport
    /\ DOMAIN inflight = {}

=============================================================================
